---------------------------- MODULE Spec2Model ----------------------------
(***************************************************************************)
(* A model of claude-autoapprove (package src/src/claude_autoapprove):     *)
(* the prompt detector, the rate/loop limiter, the approval manager with   *)
(* its countdown threads, and the wrapper's I/O multiplexer.               *)
(*                                                                         *)
(* Text is a sequence of tokens.  A token is one literal piece of terminal *)
(* output: a marker the detector searches for, a filler phrase, a line     *)
(* break, a single space or one ANSI escape sequence.  Len(token) is its   *)
(* number of characters.  Time is wall-clock seconds on an integer grid.   *)
(***************************************************************************)
EXTENDS Naturals, Integers, Sequences, FiniteSets, TLC

VARIABLES
    clock,                \* time.time()
    config,               \* Config.config values read by the core
    approval_timestamps,  \* RateLimiter.approval_timestamps
    approval_hashes,      \* RateLimiter.approval_hashes: <<hash, time>> pairs
    chk,                  \* history: result of the latest check_approval_allowed
    blocked,              \* history: fingerprints refused as a loop so far
    approval_count,       \* ApprovalManager.approval_count
    last_approval_time,   \* ApprovalManager.last_approval_time
    countdown_running,    \* ApprovalManager._countdown_running
    countdown_cancelled,  \* ApprovalManager._countdown_cancelled (Event)
    countdown_approve_now,\* ApprovalManager._countdown_approve_now (Event)
    last_buffer,          \* ApprovalManager._last_buffer
    threads,              \* every countdown thread started; the last one is _countdown_thread
    auto_approve_enabled, \* ClaudeWrapper.auto_approve_enabled
    output_buffer,        \* run()'s output_buffer
    last_output_time,     \* ClaudeWrapper._last_output_time
    last_idle_action_time,\* ClaudeWrapper._last_idle_action_time
    muxpc,                \* position of the multiplexer thread inside a handler
    pending,              \* the start_countdown call the multiplexer is inside
    stdout,               \* chunks written to the controlling terminal
    fwd,                  \* user chunks the multiplexer wrote to the PTY
    idle_writes,          \* byte strings the idle fallback wrote to the PTY
    process,              \* the child: Popen.poll() is None ("running") or not ("exited")
    det,                  \* history: the latest call of a detector function
    legacy,               \* the monolith claude_wrapper.py: its duplicate-prompt state
    master                \* history: cleanup() calls, os.close(master_fd) calls, terminate() calls

limiterVars == <<approval_timestamps, approval_hashes, chk, blocked>>
managerVars == <<approval_count, last_approval_time, countdown_running,
                 countdown_cancelled, countdown_approve_now, last_buffer, threads>>
wrapperVars == <<auto_approve_enabled, output_buffer, last_output_time,
                 last_idle_action_time, muxpc, pending, stdout, fwd, idle_writes>>
vars == <<clock, config, limiterVars, managerVars, wrapperVars, process, det, legacy, master>>

(***************************************************************************)
(* Bounds of the model.                                                    *)
(***************************************************************************)
StartTime == 100        \* time.time() at construction (after the epoch, 0)
ClockStep == 20         \* seconds between two observations of the clock
MaxElapsed == 80        \* the clock stops at StartTime + MaxElapsed
MaxElapsedLoop == 40    \* the same, for the six-arrivals scenario (< 60 s)
MaxRecords == 4         \* direct record_approval calls in the limiter specification
MaxThreads == 2         \* countdown threads started in one behaviour
MaxOutputs == 2         \* PTY output events in one behaviour
MaxOutputsLoop == 6     \* PTY output events in the six-arrivals scenario
MaxOutputsNow == 2      \* PTY output events, one countdown at a time
MaxInputs == 1          \* user chunks forwarded in one behaviour
MaxOutputsRefusal == 4  \* PTY output events in the refusal scenario
MaxOutputsToggle == 2   \* PTY output events in the toggle scenario
MaxReads == 11          \* PTY output events in the long-output scenario
MaxOutputsIdle == 2     \* PTY output events in the idle scenario
MaxElapsedIdle == 40    \* the clock stops at StartTime + MaxElapsedIdle there
MaxStripLen == 4        \* characters of a text handed to strip_ansi, character by character
MaxMinScore == 4        \* min_detection_score ranges over 0..MaxMinScore in the detector scenario
MaxCallsLegacy == 3     \* handle_output calls of the monolith in one behaviour
MaxElapsedLegacy == 3   \* the clock stops at StartTime + MaxElapsedLegacy there
MaxOutputsCount == 3    \* PTY output events in the counting scenario
MaxOutputsRate == 3     \* PTY output events in the rate scenario
MaxThreadsFair == 2     \* countdowns started in the fair scenario
MaxOutputsFair == 2     \* PTY output events in the fair scenario
MaxOutputsTeardown == 2 \* PTY output events in the teardown scenario

(***************************************************************************)
(* Program constants.                                                      *)
(***************************************************************************)
WindowSeconds == 60               \* cleanup_old_entries(window_seconds=60)
DefaultMinDetectionScore == 3
DefaultMaxApprovalsPerMinute == 500
DefaultMaxSamePromptApprovals == 5
IdleTimeoutTenths == 25           \* idle_timeout_seconds 2.5, in tenths of a second
IdleMinBufferLen == 50            \* len(output_buffer) > 50
CooldownSeconds == 1              \* cooldown_seconds 1.0 of the monolith's DEFAULT_CONFIG
LegacyHashExpiry == 3 * CooldownSeconds   \* hash_expiry = cooldown_seconds * 3
MaxBufferSize == 10000            \* MAX_BUFFER_SIZE
ReadSize == 1024                  \* READ_SIZE
TrimPoint == 2000                 \* int(MAX_BUFFER_SIZE * 0.2)
LongTextLen == 2000               \* len(clean_text) > 2000
MaxSentences == 10                \* sentence_count > 10

(***************************************************************************)
(* Tokens.                                                                 *)
(***************************************************************************)
AnsiColor == "<ESC>[32m"          \* an SGR sequence: ANSI_ESCAPE_PATTERN only
AnsiCursor == "<ESC>[2K"          \* erase line: ANSI_CURSOR_PATTERN
AnsiTokens == {AnsiColor, AnsiCursor}
Space == " "
Newline == "\n"
CR == "\r"
ToggleKey == "^A"                 \* toggle_key "\x01"

ProceedTokens == {"Do you want to proceed?", "Would you like to proceed?"}
DoWantVerbTokens == {"Do you want to create", "do you want to edit"}
WouldLikeVerbTokens == {"Would you like to write"}
Yes1Tokens == {"1. Yes", "1) Yes"}
No23DotTokens == {"2. No", "3. No"}        \* [23]\.\s*No
No23ParenTokens == {"2) No", "3) No"}      \* [23]\)\s*No
EnterTokens == {"Enter to approve", "Enter to confirm"}
TypeYesTokens == {"Type yes to continue", "enter yes"}    \* Type.*yes | Enter.*yes
YnToken == "(y/n)"
Fence == "<code fence>"                 \* the three-backquote marker
FillerFile == "this file: src/claude_autoapprove/notes.txt"
FillerWord == "Thinking"

\* clean_text.count(".") + clean_text.count("?") + clean_text.count("!") of one token
TokSentences(tok) ==
    CASE tok \in ProceedTokens -> 1
      [] tok \in {"1. Yes", "2. No", "3. No"} -> 1
      [] tok = FillerFile -> 1
      [] OTHER -> 0

TokLen(tok) == Len(tok)

\* the two halves of a text of two tokens or more (the sums and rewritings
\* below go down by halves, so that long texts need no deep recursion)
FirstHalf(text) == SubSeq(text, 1, Len(text) \div 2)
SecondHalf(text) == SubSeq(text, Len(text) \div 2 + 1, Len(text))

\* len(text)
RECURSIVE TextLen(_)
TextLen(text) ==
    IF text = <<>> THEN 0
    ELSE IF Len(text) = 1 THEN TokLen(text[1])
    ELSE TextLen(FirstHalf(text)) + TextLen(SecondHalf(text))

RECURSIVE SentenceCount(_)
SentenceCount(text) ==
    IF text = <<>> THEN 0
    ELSE IF Len(text) = 1 THEN TokSentences(text[1])
    ELSE SentenceCount(FirstHalf(text)) + SentenceCount(SecondHalf(text))

Has(text, toks) == \E i \in 1..Len(text) : text[i] \in toks

(***************************************************************************)
(* PromptDetector.strip_ansi                                               *)
(***************************************************************************)
\* re.sub(r" +", " ", text) on single-space tokens: a run of spaces becomes one
RECURSIVE CollapseSpaces(_)
CollapseSpaces(text) ==
    IF Len(text) < 2 THEN text
    ELSE LET l == CollapseSpaces(FirstHalf(text))
             r == CollapseSpaces(SecondHalf(text))
         IN  IF l[Len(l)] = Space /\ r[1] = Space
             THEN SubSeq(l, 1, Len(l) - 1) \o r
             ELSE l \o r

NotAnsi(tok) == tok \notin AnsiTokens

StripAnsi(text) ==
    LET cursorToSpace == [i \in 1..Len(text) |->
                             IF text[i] = AnsiCursor THEN Space ELSE text[i]]
        noEscapes == SelectSeq(cursorToSpace, NotAnsi)
    IN  CollapseSpaces(noEscapes)

(***************************************************************************)
(* PromptDetector.strip_ansi, character by character: the text is a        *)
(* sequence of single characters of the alphabet Chars, and the two        *)
(* patterns of constants.py are matched as re.sub does, leftmost first,    *)
(* without overlap.  On this alphabet the character classes that follow    *)
(* one another in a pattern are disjoint, so the greedy match is the only  *)
(* one.                                                                    *)
(***************************************************************************)
Esc == "<ESC>"                          \* the byte 0x1b
Chars == {Esc, "[", "1", ";", "m", "A", Space}
CursorParamChars == {"1", ";"}          \* [\d;]
CursorFinalChars == {"A"}               \* [ABCDEFGHJKfsu]
TwoCharFinalChars == {"A"}              \* [@-Z\\-_]: 0x40-0x5A and 0x5C-0x5F
ParamChars == {"1", ";"}                \* [0-?]: 0x30-0x3F
IntermediateChars == {Space}            \* [ -/]: 0x20-0x2F
FinalChars == {"[", "m", "A"}           \* [@-~]: 0x40-0x7E

\* the number of characters of class cls that follow one another from position i
RECURSIVE RunLen(_, _, _)
RunLen(text, i, cls) ==
    IF i <= Len(text) /\ text[i] \in cls THEN 1 + RunLen(text, i + 1, cls) ELSE 0

\* the length of the match of ANSI_CURSOR_PATTERN at position i, 0 for none
CursorMatchLen(text, i) ==
    IF text[i] = Esc /\ i + 1 <= Len(text) /\ text[i + 1] = "["
    THEN LET j == i + 2 + RunLen(text, i + 2, CursorParamChars)
         IN  IF j <= Len(text) /\ text[j] \in CursorFinalChars THEN j - i + 1 ELSE 0
    ELSE 0

\* the length of the match of ANSI_ESCAPE_PATTERN at position i, 0 for none
EscapeMatchLen(text, i) ==
    IF text[i] = Esc /\ i + 1 <= Len(text)
    THEN IF text[i + 1] \in TwoCharFinalChars THEN 2
         ELSE IF text[i + 1] = "["
         THEN LET p == i + 2 + RunLen(text, i + 2, ParamChars)
                  j == p + RunLen(text, p, IntermediateChars)
              IN  IF j <= Len(text) /\ text[j] \in FinalChars THEN j - i + 1 ELSE 0
         ELSE 0
    ELSE 0

\* ANSI_CURSOR_PATTERN.sub(" ", text), from position i on
RECURSIVE CursorSub(_, _)
CursorSub(text, i) ==
    IF i > Len(text) THEN <<>>
    ELSE LET n == CursorMatchLen(text, i)
         IN  IF n > 0 THEN <<Space>> \o CursorSub(text, i + n)
             ELSE <<text[i]>> \o CursorSub(text, i + 1)

\* ANSI_ESCAPE_PATTERN.sub("", text), from position i on
RECURSIVE EscapeSub(_, _)
EscapeSub(text, i) ==
    IF i > Len(text) THEN <<>>
    ELSE LET n == EscapeMatchLen(text, i)
         IN  IF n > 0 THEN EscapeSub(text, i + n)
             ELSE <<text[i]>> \o EscapeSub(text, i + 1)

\* strip_ansi, detection.py 64-69
StripAnsiChars(text) == CollapseSpaces(EscapeSub(CursorSub(text, 1), 1))

(***************************************************************************)
(* PromptDetector.is_permission_prompt                                     *)
(***************************************************************************)
\* re.search(r"\(y/n\)\s*$", clean_text, re.MULTILINE)
YnAtLineEnd(text) ==
    \E i \in 1..Len(text) :
        /\ text[i] = YnToken
        /\ \E j \in i..Len(text) :
              /\ \A k \in (i+1)..j : text[k] \in {Space, Newline}
              /\ (j = Len(text) \/ text[j+1] = Newline)

Max0(n) == IF n < 0 THEN 0 ELSE n

PromptScore(text, custom) ==
    LET clean == StripAnsi(text)
        b(c, n) == IF c THEN n ELSE 0
        strong == b(Has(clean, {"Permission rule"}), 2)
                + b(Has(clean, {"Do you want to proceed?"}), 2)
                + b(Has(clean, {"Would you like to proceed?"}), 2)
                + b(Has(clean, DoWantVerbTokens), 2)
                + b(Has(clean, WouldLikeVerbTokens), 2)
        medium == b(Has(clean, {"Esc to cancel"}), 1)
                + b(Has(clean, {"Tab to amend"}), 1)
                + b(Has(clean, EnterTokens), 1)
        has_yes == Has(clean, Yes1Tokens)
        has_no == Has(clean, No23DotTokens) \/ Has(clean, No23ParenTokens)
        s1 == strong + medium + b(has_yes /\ has_no, 3) + b(YnAtLineEnd(clean), 1)
                + b(Has(clean, custom), 2)
        s2 == IF Has(clean, {Fence}) THEN 0 ELSE s1
        s3 == IF TextLen(clean) > LongTextLen THEN Max0(s2 - 2) ELSE s2
        s4 == IF SentenceCount(clean) > MaxSentences THEN Max0(s3 - 1) ELSE s3
    IN  s4

\* a threshold that the score has to exceed
IsPermissionPromptGt(text) == PromptScore(text, {}) > config.min_detection_score
\* detection.py 168: return score >= min_score
IsPermissionPrompt(text) == PromptScore(text, {}) >= config.min_detection_score

(***************************************************************************)
(* PromptDetector.get_prompt_type                                          *)
(***************************************************************************)
\* the text-input test before the menu test
GetPromptTypeTextFirst(text) ==
    LET clean == StripAnsi(text)
    IN  IF Has(clean, TypeYesTokens \cup {YnToken}) THEN "text_input"
        ELSE "numbered_menu"
\* detection.py 184-195
GetPromptType(text) ==
    LET clean == StripAnsi(text)
    IN  IF Has(clean, {"1. Yes", "2. No"}) THEN "numbered_menu"
        ELSE IF Has(clean, TypeYesTokens \cup {YnToken}) THEN "text_input"
        ELSE "numbered_menu"

(***************************************************************************)
(* PromptDetector.is_question_prompt                                       *)
(***************************************************************************)
\* tokens that one of the four question patterns matches (re.IGNORECASE, on
\* the text as given): \d+\)\s+, Select an option, Choose.*:, \[.*\].*\?
QuestionTokens ==
    {"1) Yes"} \cup No23ParenTokens
        \cup {"Select an option", "Choose one:", "[a] or [b]?"}

\* the patterns without the permission test
IsQuestionPromptPatternsOnly(text) == Has(text, QuestionTokens)
\* detection.py 215-228
IsQuestionPrompt(text) ==
    IF IsPermissionPrompt(text) THEN FALSE ELSE Has(text, QuestionTokens)

(***************************************************************************)
(* RateLimiter                                                             *)
(***************************************************************************)
\* hashlib.md5(text.encode()).hexdigest(): a digest of the normalized text;
\* MD5 collisions are not modelled.
HashPrompt(clean) == <<"md5", clean>>

\* a fingerprint of the raw text, escape sequences included
FingerprintRaw(text) == HashPrompt(text)
\* detection.py 316-317 and 356-357: strip_ansi_func(text), then _hash_prompt
Fingerprint(text) == HashPrompt(StripAnsi(text))

\* the window test with <= in place of <
InWindowLe(now, t) == now - t <= WindowSeconds
InWindow(now, t) == now - t < WindowSeconds

CleanTimestamps(now) ==
    LET keep(t) == InWindow(now, t) IN SelectSeq(approval_timestamps, keep)

CleanHashes(now) ==
    LET keep(e) == InWindow(now, e[2]) IN SelectSeq(approval_hashes, keep)

CountHash(hs, h) == Cardinality({i \in 1..Len(hs) : hs[i][1] = h})

ReasonLoop == "Same prompt approved"
ReasonRate == "Rate limit"
ReasonNone == "None"

\* the loop test with > in place of >=
LoopLimitReachedGt(n) == n > config.max_same_prompt_approvals
LoopLimitReached(n) == n >= config.max_same_prompt_approvals

\* the two limit tests in the opposite order
CheckVerdictRateFirst(h, hs, ts) ==
    IF Len(ts) >= config.max_approvals_per_minute
    THEN [allowed |-> FALSE, reason |-> ReasonRate]
    ELSE IF LoopLimitReached(CountHash(hs, h))
    THEN [allowed |-> FALSE, reason |-> ReasonLoop]
    ELSE [allowed |-> TRUE, reason |-> ReasonNone]

\* check_approval_allowed after cleanup_old_entries: the two limits in order
CheckVerdict(h, hs, ts) ==
    IF LoopLimitReached(CountHash(hs, h))
    THEN [allowed |-> FALSE, reason |-> ReasonLoop]
    ELSE IF Len(ts) >= config.max_approvals_per_minute
    THEN [allowed |-> FALSE, reason |-> ReasonRate]
    ELSE [allowed |-> TRUE, reason |-> ReasonNone]

NoCheck == [valid |-> FALSE, fp |-> <<>>, allowed |-> TRUE, reason |-> ReasonNone]

\* a check that counts the attempt even when it refuses
CheckApprovalAllowedCounting(text) ==
    LET h == Fingerprint(text)
        ts == CleanTimestamps(clock)
        hs == CleanHashes(clock)
        v == CheckVerdict(h, hs, ts)
    IN  /\ approval_timestamps' = IF v.allowed THEN ts ELSE Append(ts, clock)
        /\ approval_hashes' = hs
        /\ chk' = [valid |-> TRUE, fp |-> h, allowed |-> v.allowed, reason |-> v.reason]
        /\ blocked' = IF v.reason = ReasonLoop THEN blocked \cup {h} ELSE blocked

\* check_approval_allowed(text, strip_ansi): purge, then decide.  The purged
\* lists are stored; the verdict is kept in chk.
CheckApprovalAllowed(text) ==
    LET h == Fingerprint(text)
        ts == CleanTimestamps(clock)
        hs == CleanHashes(clock)
        v == CheckVerdict(h, hs, ts)
    IN  /\ approval_timestamps' = ts
        /\ approval_hashes' = hs
        /\ chk' = [valid |-> TRUE, fp |-> h, allowed |-> v.allowed, reason |-> v.reason]
        /\ blocked' = IF v.reason = ReasonLoop THEN blocked \cup {h} ELSE blocked

\* a record_approval that leaves the fingerprint list as it was
RecordedHashesNone(hs, text) == hs
\* record_approval(text, strip_ansi) applied to lists ts, hs
RecordedTimestamps(ts) == Append(ts, clock)
RecordedHashes(hs, text) == Append(hs, <<Fingerprint(text), clock>>)

(***************************************************************************)
(* Inputs: the buffers and configurations the behaviours draw from.        *)
(***************************************************************************)
\* a NUMBERED_MENU permission prompt of 77 characters, score 5
PromptMenuA == <<"Do you want to create", FillerFile, Newline, "1. Yes", Newline, "2. No">>
\* a TEXT_INPUT permission prompt of 63 characters, score 3
PromptTextB == <<"Permission rule", FillerFile, YnToken>>
\* PromptMenuA as the child prints it in colour: the same normalized text
PromptMenuAColor == <<AnsiColor>> \o PromptMenuA
\* output that is no prompt
NoiseChunk == <<FillerWord>>

\* Config.DEFAULT_CONFIG, the values the core reads
DefaultConfig ==
    [auto_approve_delay |-> 1,
     auto_approve_enabled |-> TRUE,
     min_detection_score |-> DefaultMinDetectionScore,
     max_approvals_per_minute |-> DefaultMaxApprovalsPerMinute,
     max_same_prompt_approvals |-> DefaultMaxSamePromptApprovals,
     idle_detection_enabled |-> TRUE,
     idle_timeout_tenths |-> IdleTimeoutTenths]

\* small limits, so that both are reached within the bounds
LimiterConfigs ==
    {[DefaultConfig EXCEPT !.max_same_prompt_approvals = 2, !.max_approvals_per_minute = 3],
     [DefaultConfig EXCEPT !.max_same_prompt_approvals = 3, !.max_approvals_per_minute = 2]}

LimiterTexts == {PromptMenuA, PromptTextB, PromptMenuAColor}

\* no detector function has been called
NoCall == [op |-> "none", text |-> <<>>, out |-> <<>>, again |-> <<>>,
           score |-> 0, permission |-> FALSE, question |-> FALSE, kind |-> "none"]

NoPending == [buffer |-> <<>>, delay |-> 0, overSame |-> FALSE]

\* claude_wrapper.py 171-172 and ClaudeWrapper.__init__ of the monolith: no
\* approval yet (_last_approval_time = 0), no prompt hash (None, here <<>>),
\* no countdown; call is the history of the latest handle_output call
\* no cleanup() has run: wrapper.py 128-129, the PTY master is open
NoCleanup == [cleanups |-> <<>>, closes |-> <<>>, terminates |-> 0]
NoHash == <<>>
NoLegacyCall == [n |-> 0, fp |-> NoHash, same |-> FALSE, since |-> 0,
                 running |-> FALSE, limited |-> FALSE, ret |-> FALSE]
NoLegacy ==
    [approved_prompt_hash |-> NoHash, last_approval_time |-> 0,
     countdown_running |-> FALSE, countdown_cancelled |-> FALSE,
     counting |-> 0, stale |-> 0, approving |-> 0,
     approval_hashes |-> <<>>, approval_timestamps |-> <<>>,
     call |-> NoLegacyCall]

\* The state after ClaudeWrapper.__init__, _initialize_components and the
\* start of run(), for a configuration of cfgs.
InitWith(cfgs) ==
    /\ clock = StartTime
    /\ config \in cfgs
    /\ approval_timestamps = <<>>
    /\ approval_hashes = <<>>
    /\ chk = NoCheck
    /\ blocked = {}
    /\ approval_count = 0
    /\ last_approval_time = 0
    /\ countdown_running = FALSE
    /\ countdown_cancelled = FALSE
    /\ countdown_approve_now = FALSE
    /\ last_buffer = <<>>
    /\ threads = <<>>
    /\ auto_approve_enabled = config.auto_approve_enabled
    /\ output_buffer = <<>>
    /\ last_output_time = StartTime
    /\ last_idle_action_time = 0
    /\ muxpc = "loop"
    /\ pending = NoPending
    /\ stdout = <<>>
    /\ fwd = <<>>
    /\ idle_writes = <<>>
    /\ process = "running"
    /\ det = NoCall
    /\ legacy = NoLegacy
    /\ master = NoCleanup

\* time passes: the next reading of time.time() is later
Tick(maxElapsed) ==
    /\ clock + ClockStep <= StartTime + maxElapsed
    /\ clock' = clock + ClockStep
    /\ chk' = NoCheck
    /\ UNCHANGED <<config, det, legacy, process, master, approval_timestamps, approval_hashes, blocked,
                   managerVars, wrapperVars>>

(***************************************************************************)
(* The limiter on its own: check_approval_allowed and record_approval      *)
(* called directly, as the unit tests do.                                  *)
(***************************************************************************)
LimiterCheck ==
    \E text \in LimiterTexts :
        /\ CheckApprovalAllowed(text)
        /\ UNCHANGED <<clock, config, det, legacy, process, master, managerVars, wrapperVars>>

LimiterRecord ==
    \E text \in LimiterTexts :
        /\ Len(approval_timestamps) < MaxRecords
        /\ approval_timestamps' = RecordedTimestamps(approval_timestamps)
        /\ approval_hashes' = RecordedHashes(approval_hashes, text)
        /\ chk' = NoCheck
        /\ UNCHANGED <<clock, config, det, legacy, process, master, blocked, managerVars, wrapperVars>>

LimiterTick == Tick(MaxElapsed)

InitLimiter == InitWith(LimiterConfigs)
NextLimiter == LimiterCheck \/ LimiterRecord \/ LimiterTick
SpecLimiter == InitLimiter /\ [][NextLimiter]_vars

\* records of fingerprint h, and records in all, inside the 60-second window
WindowCount(h) ==
    Cardinality({i \in 1..Len(approval_hashes) :
                    /\ approval_hashes[i][1] = h
                    /\ clock - approval_hashes[i][2] < WindowSeconds})
WindowTotal ==
    Cardinality({i \in 1..Len(approval_timestamps) :
                    clock - approval_timestamps[i] < WindowSeconds})

\* C6: once a fingerprint has max_same_prompt_approvals records inside the
\* window, a check for it is refused with the loop reason; a check for a
\* fingerprint below its limit is allowed while the global limit is not reached,
\* also while another fingerprint is blocked.
C6_LoopBlocksOnlySameFingerprint ==
    chk.valid =>
        /\ WindowCount(chk.fp) >= config.max_same_prompt_approvals
              => (~chk.allowed /\ chk.reason = ReasonLoop)
        /\ (/\ WindowCount(chk.fp) < config.max_same_prompt_approvals
            /\ WindowTotal < config.max_approvals_per_minute) => chk.allowed

\* a check allowed for one fingerprint while another one is at its limit
C6_Witness ==
    /\ chk.valid /\ chk.allowed
    /\ \E text \in LimiterTexts :
          /\ Fingerprint(text) # chk.fp
          /\ WindowCount(Fingerprint(text)) >= config.max_same_prompt_approvals

\* C7: with the global limit reached and the checked fingerprint below its own
\* limit the refusal carries the rate-limit reason; with both limits reached
\* the loop reason wins.
C7_GlobalLimitAfterLoopCheck ==
    (chk.valid /\ WindowTotal >= config.max_approvals_per_minute) =>
        /\ ~chk.allowed
        /\ chk.reason = IF WindowCount(chk.fp) >= config.max_same_prompt_approvals
                        THEN ReasonLoop ELSE ReasonRate

\* a refusal for the global limit alone
C7_Witness ==
    /\ chk.valid /\ ~chk.allowed /\ chk.reason = ReasonRate
    /\ WindowTotal >= config.max_approvals_per_minute
    /\ WindowCount(chk.fp) < config.max_same_prompt_approvals

\* C8: after a check neither list holds a record of age 60 s or more, and a
\* refusal is justified by the records inside the window alone.
C8_OldRecordsDoNotCount ==
    chk.valid =>
        /\ \A i \in 1..Len(approval_timestamps) :
              clock - approval_timestamps[i] < WindowSeconds
        /\ \A i \in 1..Len(approval_hashes) :
              clock - approval_hashes[i][2] < WindowSeconds
        /\ chk.reason = ReasonLoop
              => WindowCount(chk.fp) >= config.max_same_prompt_approvals
        /\ chk.reason = ReasonRate
              => WindowTotal >= config.max_approvals_per_minute

\* a fingerprint that was refused as a loop is allowed again
C8_Witness == chk.valid /\ chk.allowed /\ chk.fp \in blocked

(***************************************************************************)
(* ApprovalManager: the countdown threads.                                 *)
(*                                                                         *)
(* A thread record holds the thread's position (pc), the loop variable i   *)
(* of countdown_and_approve, its argument (delay), the prompt_type local   *)
(* of _execute_approval (kind), and history fields: the ticks slept, the   *)
(* byte strings written to the PTY, the buffer of the start_countdown call *)
(* that created it, and what the multiplexer asked of it.                  *)
(***************************************************************************)
TickLoopPcs == {"check", "sleep"}
ApprovingPcs == {"approve", "write2"}

NewThread(buffer, delay, overSame) ==
    [pc |-> "check", i |-> delay, delay |-> delay, kind |-> "",
     slept |-> 0, wrote |-> <<>>, buf |-> buffer,
     ucancel |-> FALSE, supDiff |-> FALSE, disturbed |-> FALSE,
     nowAt |-> -1, overSame |-> overSame]

Alive(t) == threads[t].pc # "done"
Current == Len(threads)             \* _countdown_thread

ThreadFrame == UNCHANGED <<clock, config, det, legacy, process, master, limiterVars, countdown_cancelled,
                           countdown_approve_now, last_buffer, wrapperVars>>

\* approval.py 120: the final check before approving
FinalCheckCancelled == countdown_cancelled

\* a tick loop without the approve-now test
TickCheckIgnoresApproveNow == FALSE
\* approval.py 102: the approve-now test at the head of a tick
TickCheckApproveNow == countdown_approve_now

\* countdown_and_approve from the head of the loop (approval.py 100) with i
\* ticks left to the next blocking call: "sleep" (the time.sleep(1) of line 117),
\* "finally" (a return at 110 or 124) or "approve" (lines 127, 132-133: the
\* counter is incremented, the thread is in the time.sleep(0.3) of line 140)
AfterChecks(i) ==
    IF i = 0 \/ TickCheckApproveNow
    THEN IF FinalCheckCancelled THEN "finally" ELSE "approve"
    ELSE IF countdown_cancelled THEN "finally" ELSE "sleep"

\* the thread starts (pc "check"), or wakes from a tick's sleep, and runs to
\* its next blocking call
Checks(t) ==
    LET th == threads[t]
        i == IF th.pc = "sleep" THEN th.i - 1 ELSE th.i
        slept == IF th.pc = "sleep" THEN th.slept + 1 ELSE th.slept
        to == AfterChecks(i)
    IN  /\ th.pc \in TickLoopPcs
        /\ threads' = [threads EXCEPT ![t].pc = to, ![t].i = i, ![t].slept = slept]
        /\ IF to = "approve"
           THEN approval_count' = approval_count + 1 /\ last_approval_time' = clock
           ELSE UNCHANGED <<approval_count, last_approval_time>>
        /\ UNCHANGED countdown_running
        /\ ThreadFrame

\* the two branches of the first write exchanged
FirstWriteSwapped(kind) == IF kind = "numbered_menu" THEN "yes" ELSE CR
\* approval.py 150-157: the first os.write
FirstWrite(kind) == IF kind = "numbered_menu" THEN CR ELSE "yes"

\* approval.py 143-157: the prompt type of the manager's _last_buffer, then the
\* first write
Approve(t) ==
    LET kind == GetPromptType(last_buffer)
    IN  /\ threads[t].pc = "approve"
        /\ threads' = [threads EXCEPT
              ![t].kind = kind,
              ![t].wrote = Append(@, FirstWrite(kind)),
              ![t].pc = IF kind = "numbered_menu" THEN "finally" ELSE "write2"]
        /\ UNCHANGED <<approval_count, last_approval_time, countdown_running>>
        /\ ThreadFrame

\* a second write that repeats the first
Write2Repeats(t) ==
    /\ threads[t].pc = "write2"
    /\ threads' = [threads EXCEPT ![t].wrote = Append(@, "yes"), ![t].pc = "finally"]
    /\ UNCHANGED <<approval_count, last_approval_time, countdown_running>>
    /\ ThreadFrame

\* approval.py 161-164: Enter after 'yes'
Write2(t) ==
    /\ threads[t].pc = "write2"
    /\ threads' = [threads EXCEPT ![t].wrote = Append(@, CR), ![t].pc = "finally"]
    /\ UNCHANGED <<approval_count, last_approval_time, countdown_running>>
    /\ ThreadFrame

\* approval.py 215-217: countdown_wrapper's finally, under _countdown_lock
Finally(t) ==
    /\ threads[t].pc = "finally"
    /\ muxpc # "start2"                 \* the multiplexer holds the lock there
    /\ countdown_running' = FALSE
    /\ threads' = [threads EXCEPT ![t].pc = "done"]
    /\ UNCHANGED <<approval_count, last_approval_time>>
    /\ ThreadFrame

ThreadStep ==
    \E t \in DOMAIN threads :
        \/ Checks(t)
        \/ Approve(t)
        \/ Write2(t)
        \/ Finally(t)

(***************************************************************************)
(* ApprovalManager: the calls the multiplexer makes.                       *)
(***************************************************************************)
\* history: a cancel or a superseding start reaches the countdowns that have
\* not made their final check yet
Disturb(th) ==
    IF th.pc \in TickLoopPcs THEN [th EXCEPT !.disturbed = TRUE] ELSE th

\* cancel_countdown(): threads after the call
CancelledThreads ==
    [t \in DOMAIN threads |->
        LET th == Disturb(threads[t])
        IN  IF t = Current /\ th.pc \in TickLoopPcs /\ th.i >= 1
            THEN [th EXCEPT !.ucancel = TRUE] ELSE th]

\* approval.py 234: cancel_countdown sets the event only while a countdown runs
CancelCountdownSets == countdown_running

\* approve_now(): threads after the call
ApproveNowThreads ==
    [t \in DOMAIN threads |->
        LET th == threads[t]
        IN  IF /\ t = Current /\ th.pc \in TickLoopPcs /\ th.i >= 2
               /\ ~countdown_cancelled /\ ~th.disturbed
            THEN [th EXCEPT !.nowAt = th.slept] ELSE th]

\* start_countdown, approval.py 197-201: threads after the old countdown is cancelled
SupersededThreads(buffer) ==
    [t \in DOMAIN threads |->
        LET th == Disturb(threads[t])
        IN  IF /\ t = Current /\ countdown_running /\ th.pc \in TickLoopPcs
               /\ Fingerprint(th.buf) # Fingerprint(buffer)
            THEN [th EXCEPT !.supDiff = TRUE] ELSE th]

\* start_countdown, approval.py 203-223, from threads thr and limiter lists ts, hs:
\* the new countdown is set up, the approval recorded and the thread started
StartBody(thr, ts, hs, buffer, delay, overSame) ==
    /\ countdown_running' = TRUE
    /\ countdown_cancelled' = FALSE
    /\ countdown_approve_now' = FALSE
    /\ last_buffer' = buffer
    /\ approval_timestamps' = RecordedTimestamps(ts)
    /\ approval_hashes' = RecordedHashes(hs, buffer)
    /\ chk' = NoCheck
    /\ blocked' = blocked
    /\ threads' = Append(thr, NewThread(buffer, delay, overSame))

\* start_countdown(buffer, delay) as the handlers call it, with buffer the
\* handler's output_buffer; the handler clears output_buffer iff it returns True.
\* The running countdown's fingerprint is not looked at (approval.py 197-201
\* cancels whatever runs); same is history only.
\* With a countdown running the call stops between the set() of line 200 and the
\* clear() of line 205 (muxpc "start2"), where countdown threads may run.
StartCountdown(buffer, delay) ==
    LET v == CheckVerdict(Fingerprint(buffer), CleanHashes(clock), CleanTimestamps(clock))
        same == countdown_running /\ Fingerprint(last_buffer) = Fingerprint(buffer)
    IN  IF ~v.allowed
        THEN /\ CheckApprovalAllowed(buffer)
             /\ output_buffer' = buffer
             /\ muxpc' = "loop"
             /\ pending' = NoPending
             /\ UNCHANGED <<countdown_running, countdown_cancelled,
                            countdown_approve_now, last_buffer, threads>>
        ELSE IF countdown_running
        THEN /\ CheckApprovalAllowed(buffer)
             /\ countdown_cancelled' = TRUE
             /\ countdown_running' = FALSE
             /\ threads' = SupersededThreads(buffer)
             /\ output_buffer' = buffer
             /\ muxpc' = "start2"
             /\ pending' = [buffer |-> buffer, delay |-> delay, overSame |-> same]
             /\ UNCHANGED <<countdown_approve_now, last_buffer>>
        ELSE /\ StartBody(SupersededThreads(buffer), CleanTimestamps(clock),
                          CleanHashes(clock), buffer, delay, FALSE)
             /\ output_buffer' = <<>>
             /\ muxpc' = "loop"
             /\ pending' = NoPending

\* start_countdown, second half, and the caller's output_buffer = ""
StartFinish ==
    /\ muxpc = "start2"
    /\ StartBody(threads, approval_timestamps, approval_hashes,
                 pending.buffer, pending.delay, pending.overSame)
    /\ output_buffer' = <<>>
    /\ muxpc' = "loop"
    /\ pending' = NoPending
    /\ UNCHANGED <<clock, config, det, legacy, process, master, approval_count, last_approval_time,
                   auto_approve_enabled, last_output_time, last_idle_action_time,
                   stdout, fwd, idle_writes>>

(***************************************************************************)
(* ClaudeWrapper: the handlers of the multiplexer loop.                    *)
(***************************************************************************)
\* a toggle that looks at the buffer in either direction
ToggleStartsEitherWay == output_buffer # <<>> /\ IsPermissionPrompt(output_buffer)
\* whether the toggle branch goes on to start_countdown (wrapper.py 261-262),
\* read before the flip
ToggleStarts ==
    ~auto_approve_enabled /\ output_buffer # <<>> /\ IsPermissionPrompt(output_buffer)

\* a handler that takes only the two-byte line end for Enter
EnterKeysCRLF == {<<CR, Newline>>}
\* wrapper.py 232: char in (b"\r", b"\n")
EnterKeys == {<<CR>>, <<Newline>>}

\* _handle_user_input(char, output_buffer), wrapper.py 231-279, for one read
\* chunk char: a sequence of bytes, compared as a whole with Enter and with
\* the toggle key
UserInput(chars, maxThreads) ==
    \E char \in chars :
        /\ muxpc = "loop"
        /\ IF countdown_running /\ char \in EnterKeys
           THEN \* approve_now(); Enter is not forwarded
                /\ countdown_approve_now' = TRUE
                /\ threads' = ApproveNowThreads
                /\ UNCHANGED <<countdown_cancelled, auto_approve_enabled, muxpc, fwd>>
           ELSE IF char = <<ToggleKey>>
           THEN \* flip, cancel, and up to the time.sleep(0.8)
                /\ auto_approve_enabled' = ~auto_approve_enabled
                /\ IF CancelCountdownSets
                   THEN countdown_cancelled' = TRUE /\ threads' = CancelledThreads
                   ELSE UNCHANGED <<countdown_cancelled, threads>>
                /\ ToggleStarts => Len(threads) < maxThreads
                /\ muxpc' = IF ToggleStarts THEN "toggle2" ELSE "loop"
                /\ UNCHANGED <<countdown_approve_now, fwd>>
           ELSE \* any other key: cancel, then forward to the child
                /\ Len(fwd) < MaxInputs
                /\ IF CancelCountdownSets
                   THEN countdown_cancelled' = TRUE /\ threads' = CancelledThreads
                   ELSE UNCHANGED <<countdown_cancelled, threads>>
                /\ fwd' = Append(fwd, char)
                /\ UNCHANGED <<countdown_approve_now, auto_approve_enabled, muxpc>>
        /\ UNCHANGED <<clock, config, det, legacy, process, master, limiterVars, approval_count, last_approval_time,
                       countdown_running, last_buffer, output_buffer, last_output_time,
                       last_idle_action_time, pending, stdout, idle_writes>>

\* _handle_user_input, wrapper.py 260-271: after re-enabling, the prompt already
\* in the buffer starts a countdown
ToggleFinish ==
    /\ muxpc = "toggle2"
    /\ StartCountdown(output_buffer, config.auto_approve_delay)
    /\ UNCHANGED <<clock, config, det, legacy, process, master, approval_count, last_approval_time,
                   auto_approve_enabled, last_output_time, last_idle_action_time,
                   stdout, fwd, idle_writes>>

\* text[n:], for a cut that falls between two tokens
RECURSIVE DropChars(_, _)
DropChars(text, n) ==
    IF n <= 0 \/ text = <<>> THEN text
    ELSE IF Len(text) = 1 THEN <<>>
    ELSE LET l == TextLen(FirstHalf(text))
         IN  IF n >= l THEN DropChars(SecondHalf(text), n - l)
             ELSE DropChars(FirstHalf(text), n) \o SecondHalf(text)

\* a truncation that keeps the oldest text
TruncatedAtBack(buf) ==
    IF TextLen(buf) > MaxBufferSize
    THEN SubSeq(buf, 1, Len(DropChars(buf, TrimPoint))) ELSE buf
\* wrapper.py 308-310: keep the buffer size manageable
Truncated(buf) ==
    IF TextLen(buf) > MaxBufferSize THEN DropChars(buf, TrimPoint) ELSE buf

\* a handler that looks for prompts in either mode
DetectionAlwaysOn == TRUE
\* wrapper.py 314: only check for prompts if auto-approve is enabled
DetectionOn == auto_approve_enabled

\* an output handler that writes to the terminal only in enabled mode
ClaudeOutputForwardsWhenEnabled(chunks, maxOutputs, maxThreads) ==
    \E chunk \in chunks :
        LET buf == Truncated(output_buffer \o chunk)
        IN  /\ muxpc = "loop"
            /\ Len(stdout) < maxOutputs
            /\ last_output_time' = clock
            /\ stdout' = IF auto_approve_enabled THEN Append(stdout, chunk) ELSE stdout
            /\ IF DetectionOn /\ IsPermissionPrompt(buf)
               THEN /\ Len(threads) < maxThreads
                    /\ StartCountdown(buf, config.auto_approve_delay)
               ELSE /\ output_buffer' = buf
                    /\ UNCHANGED <<limiterVars, countdown_running, countdown_cancelled,
                                   countdown_approve_now, last_buffer, threads,
                                   muxpc, pending>>
            /\ UNCHANGED <<clock, config, det, legacy, process, master, approval_count, last_approval_time,
                           auto_approve_enabled, last_idle_action_time, fwd, idle_writes>>

\* _handle_claude_output(data, output_buffer), wrapper.py 292-326, for one read
\* chunk of at most READ_SIZE characters
ClaudeOutput(chunks, maxOutputs, maxThreads) ==
    \E chunk \in chunks :
        LET buf == Truncated(output_buffer \o chunk)
        IN  /\ muxpc = "loop"
            /\ Len(stdout) < maxOutputs
            /\ last_output_time' = clock
            /\ stdout' = Append(stdout, chunk)
            /\ IF DetectionOn /\ IsPermissionPrompt(buf)
               THEN /\ Len(threads) < maxThreads
                    /\ StartCountdown(buf, config.auto_approve_delay)
               ELSE /\ output_buffer' = buf
                    /\ UNCHANGED <<limiterVars, countdown_running, countdown_cancelled,
                                   countdown_approve_now, last_buffer, threads,
                                   muxpc, pending>>
            /\ UNCHANGED <<clock, config, det, legacy, process, master, approval_count, last_approval_time,
                           auto_approve_enabled, last_idle_action_time, fwd, idle_writes>>

\* the keystrokes of one approval for a buffer
ApprovalKeys(buffer) ==
    IF GetPromptType(buffer) = "numbered_menu" THEN <<CR>> ELSE <<"yes", CR>>

\* an idle check that does not ask whether a countdown is running
IdleFiresDuringCountdown ==
    /\ config.idle_detection_enabled
    /\ auto_approve_enabled
    /\ 10 * (clock - last_output_time) >= config.idle_timeout_tenths
    /\ 10 * (clock - last_idle_action_time) >= config.idle_timeout_tenths
    /\ TextLen(output_buffer) > IdleMinBufferLen
\* _check_idle_state, wrapper.py 338-351: the conditions of the idle fallback
IdleFires ==
    /\ config.idle_detection_enabled
    /\ auto_approve_enabled /\ ~countdown_running
    /\ 10 * (clock - last_output_time) >= config.idle_timeout_tenths
    /\ 10 * (clock - last_idle_action_time) >= config.idle_timeout_tenths
    /\ TextLen(output_buffer) > IdleMinBufferLen

\* an idle fallback that returns the buffer as it found it
IdleCheckKeepsBuffer ==
    /\ muxpc = "loop"
    /\ IdleFires
    /\ idle_writes' = idle_writes \o ApprovalKeys(output_buffer)
    /\ last_idle_action_time' = clock
    /\ approval_count' = approval_count + 1
    /\ last_approval_time' = clock
    /\ approval_timestamps' = Append(approval_timestamps, clock)
    /\ chk' = NoCheck
    /\ UNCHANGED <<clock, config, det, legacy, process, master, approval_hashes, blocked,
                   countdown_running, countdown_cancelled, countdown_approve_now,
                   last_buffer, threads, auto_approve_enabled, last_output_time,
                   muxpc, pending, stdout, fwd, output_buffer>>

\* an idle fallback that does not count its approval
IdleCheckSkipsCounter ==
    /\ muxpc = "loop"
    /\ IdleFires
    /\ idle_writes' = idle_writes \o ApprovalKeys(output_buffer)
    /\ last_idle_action_time' = clock
    /\ approval_count' = approval_count
    /\ last_approval_time' = clock
    /\ approval_timestamps' = Append(approval_timestamps, clock)
    /\ chk' = NoCheck
    /\ output_buffer' = <<>>
    /\ UNCHANGED <<clock, config, det, legacy, process, master, approval_hashes, blocked, countdown_running,
                   countdown_cancelled, countdown_approve_now, last_buffer, threads,
                   auto_approve_enabled, last_output_time, muxpc, pending, stdout, fwd>>

\* _check_idle_state, wrapper.py 358-387, when the fallback fires
IdleCheck ==
    /\ muxpc = "loop"
    /\ IdleFires
    /\ idle_writes' = idle_writes \o ApprovalKeys(output_buffer)
    /\ last_idle_action_time' = clock
    /\ approval_count' = approval_count + 1
    /\ last_approval_time' = clock
    /\ approval_timestamps' = Append(approval_timestamps, clock)
    /\ chk' = NoCheck
    /\ output_buffer' = <<>>
    /\ UNCHANGED <<clock, config, det, legacy, process, master, approval_hashes, blocked, countdown_running,
                   countdown_cancelled, countdown_approve_now, last_buffer, threads,
                   auto_approve_enabled, last_output_time, muxpc, pending, stdout, fwd>>

\* what cleanup() leaves alone
CleanupFrame ==
    UNCHANGED <<clock, config, det, legacy, limiterVars, approval_count, last_approval_time,
                countdown_running, countdown_approve_now, last_buffer,
                auto_approve_enabled, output_buffer, last_output_time,
                last_idle_action_time, pending, stdout, fwd, idle_writes>>

\* cleanup() has been entered from position pc of run()
Entered(m, pc) == [m EXCEPT !.cleanups = Append(@, pc)]

\* wrapper.py 199-218: self.master_fd is never reset, so os.close is called by
\* every cleanup(), and fails with EBADF once the descriptor is closed;
\* terminate() is called only while process.poll() is None
CloseAndTerminate(m) ==
    [m EXCEPT !.closes = Append(@, IF @ = <<>> THEN "closed" ELSE "EBADF"),
              !.terminates = IF process = "running" THEN @ + 1 ELSE @]

\* cleanup(), wrapper.py 188-191, entered at position pc: with is_running()
\* the countdown is cancelled and the multiplexer goes into
\* wait_for_completion (muxpc "join"); otherwise it goes straight to
\* os.close(master_fd) of line 202 and terminates the child, lines 208-218
\* (muxpc "closed")
CleanupFrom(pc) ==
    /\ muxpc = pc
    /\ IF countdown_running
       THEN /\ countdown_cancelled' = TRUE
            /\ threads' = CancelledThreads
            /\ muxpc' = "join"
            /\ master' = Entered(master, pc)
            /\ UNCHANGED process
       ELSE /\ muxpc' = "closed"
            /\ master' = CloseAndTerminate(Entered(master, pc))
            /\ process' = "exited"
            /\ UNCHANGED <<countdown_cancelled, threads>>
    /\ CleanupFrame

\* cleanup() called while the loop runs: handle_shutdown_signal, wrapper.py 160-171
Cleanup == CleanupFrom("loop")

\* wait_for_completion(timeout=2.0), approval.py 277-279, then wrapper.py
\* 193-202: join returns when _countdown_thread has ended.  A cancelled thread
\* ends within a tick (1 s) and 0.3 s, an approving one within 0.5 s, so the
\* 2-second timeout does not cut the join short.
CleanupClose ==
    /\ muxpc = "join"
    /\ Len(threads) > 0 => ~Alive(Current)
    /\ muxpc' = "closed"
    /\ master' = CloseAndTerminate(master)
    /\ process' = "exited"
    /\ UNCHANGED <<countdown_cancelled, threads>>
    /\ CleanupFrame

(***************************************************************************)
(* The session: the multiplexer and the countdown threads.                 *)
(***************************************************************************)
(***************************************************************************)
(* The countdown specification: the calls of the multiplexer into the      *)
(* approval manager (prompts arriving, Enter, another key) and the         *)
(* countdown threads.                                                      *)
(***************************************************************************)
\* delay 2 and small limits, so that refusals happen within the bounds
CountdownConfigs ==
    {[DefaultConfig EXCEPT !.auto_approve_delay = 2,
                           !.max_same_prompt_approvals = 2,
                           !.max_approvals_per_minute = 3]}

OutputChunks == {PromptMenuA, PromptTextB, NoiseChunk}
KeyChunks == {<<CR>>, <<"n">>}

Init == InitWith(CountdownConfigs)
Next ==
    \/ UserInput(KeyChunks, MaxThreads)
    \/ ClaudeOutput(OutputChunks, MaxOutputs, MaxThreads)
    \/ StartFinish
    \/ ThreadStep
Spec == Init /\ [][Next]_vars

\* whether every countdown thread started so far has ended
Quiescent == \A t \in DOMAIN threads : ~Alive(t)

(***************************************************************************)
(* One countdown at a time: a prompt arrives when no countdown thread is   *)
(* left, and the user presses Enter or another key.                        *)
(***************************************************************************)
NextNow ==
    \/ UserInput(KeyChunks, MaxOutputsNow)
    \/ (Quiescent /\ ClaudeOutput({PromptMenuA, PromptTextB}, MaxOutputsNow, MaxOutputsNow))
    \/ ThreadStep
SpecNow == Init /\ [][NextNow]_vars

(***************************************************************************)
(* The loop scenario: the same prompt arrives again and again, with        *)
(* delay 0 and the default limits, while the clock runs for less than 60 s.*)
(* The child prints the prompt again after it has read the answer: an      *)
(* arrival finds every earlier countdown thread finished.                  *)
(***************************************************************************)
LoopConfigs == {[DefaultConfig EXCEPT !.auto_approve_delay = 0]}

InitLoop == InitWith(LoopConfigs)
NextLoop ==
    \/ (Quiescent /\ ClaudeOutput({PromptMenuA}, MaxOutputsLoop, MaxOutputsLoop))
    \/ ThreadStep
    \/ IdleCheck
    \/ Tick(MaxElapsedLoop)
SpecLoop == InitLoop /\ [][NextLoop]_vars

(***************************************************************************)
(* Shutdown: the countdown specification with cleanup() at any point of    *)
(* the multiplexer loop.                                                   *)
(***************************************************************************)
NextShutdown ==
    \/ Next
    \/ Cleanup
    \/ CleanupClose
SpecShutdown == Init /\ [][NextShutdown]_vars

(***************************************************************************)
(* The toggle scenario: sessions that start enabled or disabled; the user  *)
(* presses the toggle key, alone or in one read with another byte, Enter   *)
(* or another key.                                                         *)
(***************************************************************************)
ToggleConfigs ==
    {[DefaultConfig EXCEPT !.auto_approve_enabled = e,
                           !.max_same_prompt_approvals = m] :
        e \in BOOLEAN, m \in {1, DefaultMaxSamePromptApprovals}}

ToggleChunks == {<<ToggleKey>>, <<ToggleKey, "n">>, <<"n">>}

InitToggle == InitWith(ToggleConfigs)
NextToggle ==
    \/ UserInput(ToggleChunks, MaxOutputsToggle)
    \/ ToggleFinish
    \/ ClaudeOutput({PromptMenuA, NoiseChunk}, MaxOutputsToggle, MaxOutputsToggle)
    \/ StartFinish
    \/ ThreadStep
SpecToggle == InitToggle /\ [][NextToggle]_vars

(***************************************************************************)
(* The long-output scenario: the child prints text that is no prompt, in   *)
(* reads of READ_SIZE characters and in shorter ones.  The text is made of *)
(* 16-character words, so that the cut at TrimPoint falls between tokens.  *)
(***************************************************************************)
WordA == "compiling file  "
WordB == "running tests   "
FullRead == [i \in 1..(ReadSize \div 16) |-> WordA]    \* READ_SIZE characters
ShortRead == [i \in 1..49 |-> WordB]                   \* 784 characters
LongOutputChunks == {FullRead, ShortRead}

InitBuffer == InitWith({DefaultConfig})
NextBuffer == ClaudeOutput(LongOutputChunks, MaxReads, MaxReads)
SpecBuffer == InitBuffer /\ [][NextBuffer]_vars

(***************************************************************************)
(* The idle scenario: idle detection configured on or off, prompts and     *)
(* other output of more than 50 characters, the toggle key, and the clock. *)
(***************************************************************************)
LongNoise == <<FillerFile, Newline, FillerFile>>        \* 87 characters, no prompt
\* 64 characters, score 0, kind TEXT_INPUT
TypeYesNote == <<FillerFile, Newline, "Type yes to continue">>

IdleConfigs ==
    {[DefaultConfig EXCEPT !.idle_detection_enabled = e] : e \in BOOLEAN}

InitIdle == InitWith(IdleConfigs)
NextIdle ==
    \/ ClaudeOutput({PromptMenuA, LongNoise, TypeYesNote}, MaxOutputsIdle, MaxOutputsIdle)
    \/ UserInput({<<ToggleKey>>}, MaxOutputsIdle)
    \/ ToggleFinish
    \/ StartFinish
    \/ ThreadStep
    \/ IdleCheck
    \/ Tick(MaxElapsedIdle)
SpecIdle == InitIdle /\ [][NextIdle]_vars

(***************************************************************************)
(* The detector on its own: one text, made of any choice of markers, each  *)
(* on a line of its own, is classified under a threshold of                *)
(* 0..MaxMinScore.                                                         *)
(***************************************************************************)
DetectorMarkers ==
    <<AnsiColor, "Permission rule", "Do you want to proceed?", "1. Yes", "2. No",
      "Esc to cancel", Fence, YnToken, "1) Yes", "Select an option",
      "Type yes to continue">>

RECURSIVE MarkerText(_, _)
MarkerText(S, i) ==
    IF i > Len(DetectorMarkers) THEN <<>>
    ELSE (IF i \in S THEN <<DetectorMarkers[i], Newline>> ELSE <<>>)
            \o MarkerText(S, i + 1)

DetectorTexts == {MarkerText(S, 1) : S \in SUBSET (1..Len(DetectorMarkers))}

DetectorConfigs ==
    {[DefaultConfig EXCEPT !.min_detection_score = m] : m \in 0..MaxMinScore}

Classify ==
    /\ det = NoCall
    /\ \E text \in DetectorTexts :
          det' = [op |-> "classify", text |-> text, out |-> StripAnsi(text),
                  again |-> <<>>, score |-> PromptScore(text, {}),
                  permission |-> IsPermissionPrompt(text),
                  question |-> IsQuestionPrompt(text),
                  kind |-> GetPromptType(text)]
    /\ UNCHANGED <<clock, config, limiterVars, managerVars, wrapperVars, process, master, legacy>>

InitDetector == InitWith(DetectorConfigs)
NextDetector == Classify
SpecDetector == InitDetector /\ [][NextDetector]_vars

(***************************************************************************)
(* strip_ansi applied to every text of at most MaxStripLen characters.     *)
(***************************************************************************)
CharTexts == UNION {[1..n -> Chars] : n \in 0..MaxStripLen}

StripCall ==
    /\ det = NoCall
    /\ \E x \in CharTexts :
          det' = [NoCall EXCEPT !.op = "strip_ansi", !.text = x,
                                !.out = StripAnsiChars(x),
                                !.again = StripAnsiChars(StripAnsiChars(x))]
    /\ UNCHANGED <<clock, config, limiterVars, managerVars, wrapperVars, process, master, legacy>>

InitStrip == InitWith({DefaultConfig})
NextStrip == StripCall
SpecStrip == InitStrip /\ [][NextStrip]_vars

(***************************************************************************)
(* The end of run(): the idle scenario, with the ways out of the           *)
(* multiplexer loop, the wait for the child, the finally clause and        *)
(* terminal resize events.                                                 *)
(***************************************************************************)
\* wrapper.py 481-505: os.read of stdin or of the PTY master returns no data
\* or raises OSError, or os.write to the PTY master in _handle_user_input
\* raises OSError: break, and run() goes on to process.wait() of line 512
IoFailure ==
    /\ muxpc = "loop"
    /\ muxpc' = "wait"
    /\ UNCHANGED <<clock, config, det, legacy, process, master, limiterVars, managerVars,
                   auto_approve_enabled, output_buffer, last_output_time,
                   last_idle_action_time, pending, stdout, fwd, idle_writes>>

\* wrapper.py 466-468: poll() finds that the child has exited, break
PollBreak ==
    /\ muxpc = "loop"
    /\ process = "exited"
    /\ muxpc' = "wait"
    /\ UNCHANGED <<clock, config, det, legacy, process, master, limiterVars, managerVars,
                   auto_approve_enabled, output_buffer, last_output_time,
                   last_idle_action_time, pending, stdout, fwd, idle_writes>>

\* wrapper.py 365-370 with 508 and 519-523: an os.write of the idle fallback
\* raises OSError; nothing catches it before run()'s except clause, which
\* raises it again, and the finally clause runs.  The keystrokes written
\* before the failing write stay written; the counters are not updated.
IdleWriteFails ==
    /\ muxpc = "loop"
    /\ IdleFires
    /\ \E n \in 0..(Len(ApprovalKeys(output_buffer)) - 1) :
          idle_writes' = idle_writes \o SubSeq(ApprovalKeys(output_buffer), 1, n)
    /\ muxpc' = "finally"
    /\ UNCHANGED <<clock, config, det, legacy, process, master, limiterVars, managerVars,
                   auto_approve_enabled, output_buffer, last_output_time,
                   last_idle_action_time, pending, stdout, fwd>>

\* wrapper.py 511-515: process.wait() returns once the child has exited
ProcessWait ==
    /\ muxpc = "wait"
    /\ process = "exited"
    /\ muxpc' = "finally"
    /\ UNCHANGED <<clock, config, det, legacy, process, master, limiterVars, managerVars,
                   auto_approve_enabled, output_buffer, last_output_time,
                   last_idle_action_time, pending, stdout, fwd, idle_writes>>

\* the child exits by itself
ProcessExits ==
    /\ muxpc \in {"loop", "wait"}
    /\ process = "running"
    /\ process' = "exited"
    /\ UNCHANGED <<clock, config, det, legacy, master, limiterVars, managerVars, wrapperVars>>

\* wrapper.py 522-523: finally: self.cleanup()
RunFinally == CleanupFrom("finally")

\* handle_sigwinch, wrapper.py 173-182, while run() is in its loop or in
\* process.wait(): update_size succeeds and changes the terminal geometry
\* only, or an ioctl or the write of the scroll region fails and update_size
\* raises TerminalSetupError (terminal.py 124-127), which is no OSError and
\* leaves run() through its except and finally clauses
Resize ==
    /\ muxpc \in {"loop", "wait"}
    /\ \/ UNCHANGED vars
       \/ /\ muxpc' = "finally"
          /\ UNCHANGED <<clock, config, det, legacy, process, master, limiterVars, managerVars,
                         auto_approve_enabled, output_buffer, last_output_time,
                         last_idle_action_time, pending, stdout, fwd, idle_writes>>

InitTeardown == InitWith(IdleConfigs)
NextTeardown ==
    \/ ClaudeOutput({PromptMenuA, TypeYesNote}, MaxOutputsTeardown, MaxOutputsTeardown)
    \/ StartFinish
    \/ ThreadStep
    \/ IdleCheck
    \/ Tick(MaxElapsedIdle)
    \/ IoFailure
    \/ PollBreak
    \/ IdleWriteFails
    \/ ProcessWait
    \/ ProcessExits
    \/ RunFinally
    \/ CleanupClose
    \/ Resize
\* run() and the countdown threads keep running: a step of run() after the
\* loop, or of a thread, that can be taken is taken.  Nothing makes the child
\* exit, the clock is only observed, and failures are not owed.
SpecTeardown ==
    /\ InitTeardown
    /\ [][NextTeardown]_vars
    /\ WF_vars(ProcessWait)
    /\ WF_vars(RunFinally)
    /\ WF_vars(CleanupClose)
    /\ WF_vars(ThreadStep)

(***************************************************************************)
(* The refusal scenario: limits of 1 per prompt and 2 in all, so that      *)
(* start_countdown is refused for either reason, with a countdown running  *)
(* or not; delay 0, and the user types only while a countdown is running.  *)
(***************************************************************************)
RefusalConfigs ==
    {[DefaultConfig EXCEPT !.auto_approve_delay = 0,
                           !.max_same_prompt_approvals = 1,
                           !.max_approvals_per_minute = 2]}

InitRefusal == InitWith(RefusalConfigs)
NextRefusal ==
    \/ (countdown_running /\ UserInput(KeyChunks, MaxOutputsRefusal))
    \/ ClaudeOutput({PromptMenuA, PromptTextB}, MaxOutputsRefusal, MaxOutputsRefusal)
    \/ StartFinish
    \/ ThreadStep
SpecRefusal == InitRefusal /\ [][NextRefusal]_vars

(***************************************************************************)
(* The monolith claude_wrapper.py: handle_output's duplicate-prompt test,  *)
(* with its countdown threads as counters: counting (the countdown of the  *)
(* latest start), stale (countdowns superseded by a later start, whose     *)
(* cancellation flag was cleared again at once) and approving (between     *)
(* line 432 and countdown_wrapper's finally).  Time is read in seconds.    *)
(***************************************************************************)
LegacyFrame == UNCHANGED <<clock, config, det, process, master, limiterVars, managerVars,
                           wrapperVars>>

LegacyLive == legacy.counting + legacy.stale + legacy.approving

\* a duplicate test with the cooldown window only
LegacyDuplicateCooldownOnly(same, since) == same /\ since < CooldownSeconds
\* claude_wrapper.py 560 and 573-574: the same prompt inside the cooldown, or
\* inside the extended window of three cooldowns
LegacyDuplicate(same, since) ==
    \/ same /\ since < CooldownSeconds
    \/ same /\ since < LegacyHashExpiry

\* handle_output(buffer) 476-634 for a buffer that is a permission prompt
LegacyHandleOutput(buffer) ==
    LET h == Fingerprint(buffer)
        ts == SelectSeq(legacy.approval_timestamps, LAMBDA t : clock - t < WindowSeconds)
        hs == SelectSeq(legacy.approval_hashes, LAMBDA e : clock - e[2] < WindowSeconds)
        since == clock - legacy.last_approval_time
        limited == \/ CountHash(hs, h) >= config.max_same_prompt_approvals
                   \/ Len(ts) >= config.max_approvals_per_minute
        same == h = legacy.approved_prompt_hash /\ legacy.approved_prompt_hash # NoHash
        duplicate == LegacyDuplicate(same, since)
        supersedes == legacy.countdown_running /\ ~same
        running == legacy.countdown_running /\ same
        call == [n |-> legacy.call.n + 1, fp |-> h, same |-> same, since |-> since,
                 running |-> running, limited |-> limited,
                 ret |-> ~limited /\ ~duplicate /\ ~running]
        cleaned == [legacy EXCEPT !.approval_timestamps = ts, !.approval_hashes = hs,
                                  !.call = call]
    IN  /\ IsPermissionPrompt(buffer)
        /\ legacy.call.n < MaxCallsLegacy
        /\ legacy' =
              IF limited \/ duplicate THEN cleaned
              ELSE IF running
              THEN [cleaned EXCEPT !.approved_prompt_hash = h]
              ELSE [cleaned EXCEPT
                       !.approved_prompt_hash = h,
                       !.countdown_running = TRUE,
                       !.countdown_cancelled = FALSE,
                       !.stale = IF supersedes THEN @ + legacy.counting ELSE @,
                       !.counting = IF supersedes THEN 1 ELSE @ + 1,
                       !.approval_hashes = Append(hs, <<h, clock>>)]
        /\ LegacyFrame

\* cancel_countdown, claude_wrapper.py 636-643: a key pressed by the user
LegacyCancel ==
    /\ legacy.countdown_running
    /\ legacy' = [legacy EXCEPT !.countdown_cancelled = TRUE,
                                !.approved_prompt_hash = NoHash]
    /\ LegacyFrame

\* countdown_and_approve 400-433: a countdown passes its final check and
\* records the approval time
LegacyApprove ==
    /\ \/ legacy.counting > 0 /\ ~legacy.countdown_cancelled
          /\ legacy' = [legacy EXCEPT
                !.counting = @ - 1, !.approving = @ + 1,
                !.last_approval_time = clock,
                !.approval_timestamps = Append(@, clock)]
       \/ legacy.stale > 0
          /\ legacy' = [legacy EXCEPT
                !.stale = @ - 1, !.approving = @ + 1,
                !.last_approval_time = clock,
                !.approval_timestamps = Append(@, clock)]
    /\ LegacyFrame

\* countdown_and_approve 408-412 and 424-428 with the finally of 618-622: a
\* countdown that saw the cancellation flag ends; and the finally clause
\* after an approval
LegacyThreadEnds ==
    /\ \/ legacy.counting > 0 /\ legacy.countdown_cancelled
          /\ legacy' = [legacy EXCEPT !.counting = @ - 1, !.countdown_running = FALSE]
       \/ legacy.stale > 0
          /\ legacy' = [legacy EXCEPT !.stale = @ - 1, !.countdown_running = FALSE]
       \/ legacy.approving > 0
          /\ legacy' = [legacy EXCEPT !.approving = @ - 1, !.countdown_running = FALSE]
    /\ LegacyFrame

\* a second passes
LegacyTick ==
    /\ clock < StartTime + MaxElapsedLegacy
    /\ clock' = clock + 1
    /\ UNCHANGED <<config, det, process, master, legacy, limiterVars, managerVars, wrapperVars>>

\* the default limits, but a loop limit of 2
LegacyConfigs == {[DefaultConfig EXCEPT !.max_same_prompt_approvals = 2]}

InitLegacy == InitWith(LegacyConfigs)
NextLegacy ==
    \/ \E buffer \in {PromptMenuA, PromptTextB} : LegacyHandleOutput(buffer)
    \/ LegacyCancel
    \/ LegacyApprove
    \/ LegacyThreadEnds
    \/ LegacyTick
SpecLegacy == InitLegacy /\ [][NextLegacy]_vars

(***************************************************************************)
(* The counting scenario: prompts of two kinds and other output with a     *)
(* loop limit of 1, a key that cancels, the idle fallback and the clock.   *)
(* A third output can fill the buffer while two countdown threads are      *)
(* alive, so that the idle fallback and a countdown both approve.          *)
(***************************************************************************)
CountConfigs == {[DefaultConfig EXCEPT !.max_same_prompt_approvals = 1]}

InitCount == InitWith(CountConfigs)
NextCount ==
    \/ ClaudeOutput({PromptMenuA, PromptTextB, LongNoise}, MaxOutputsCount, MaxOutputsCount)
    \/ (countdown_running /\ UserInput({<<"n">>}, MaxOutputsCount))
    \/ StartFinish
    \/ ThreadStep
    \/ IdleCheck
    \/ Tick(MaxElapsedIdle)
SpecCount == InitCount /\ [][NextCount]_vars

(***************************************************************************)
(* The rate scenario: two approvals per minute allowed, prompts and other  *)
(* output, the idle fallback and the clock.                                *)
(***************************************************************************)
RateConfigs == {[DefaultConfig EXCEPT !.max_approvals_per_minute = 2]}

InitRate == InitWith(RateConfigs)
NextRate ==
    \/ ClaudeOutput({PromptMenuA, LongNoise}, MaxOutputsRate, MaxOutputsRate)
    \/ StartFinish
    \/ ThreadStep
    \/ IdleCheck
    \/ Tick(MaxElapsedIdle)
SpecRate == InitRate /\ [][NextRate]_vars

(***************************************************************************)
(* A shutdown signal: handle_shutdown_signal calls cleanup() at any point  *)
(* of the loop and then sys.exit, whose SystemExit leaves run() through    *)
(* its finally clause.                                                     *)
(***************************************************************************)
\* wrapper.py 171: sys.exit(128 + signum) after the handler's cleanup();
\* SystemExit is no Exception (line 519) and reaches the finally of line 522
SysExit ==
    /\ muxpc = "closed"
    /\ master.cleanups = <<"loop">>
    /\ muxpc' = "finally"
    /\ UNCHANGED <<clock, config, det, legacy, process, master, limiterVars, managerVars,
                   auto_approve_enabled, output_buffer, last_output_time,
                   last_idle_action_time, pending, stdout, fwd, idle_writes>>

NextSignal ==
    \/ Next
    \/ Cleanup
    \/ CleanupClose
    \/ SysExit
    \/ RunFinally
SpecSignal == Init /\ [][NextSignal]_vars

(***************************************************************************)
(* The countdowns under fair scheduling, with approval writes that may     *)
(* fail: prompts arrive, the user presses Enter or another key, and an     *)
(* os.write of _execute_approval may raise OSError.                        *)
(***************************************************************************)
\* a failing write that ends the thread without countdown_wrapper's finally
WriteFailsSkipsFinally(t) ==
    /\ threads[t].pc \in ApprovingPcs
    /\ threads' = [threads EXCEPT
          ![t].kind = IF threads[t].pc = "approve"
                      THEN GetPromptType(last_buffer) ELSE @,
          ![t].pc = "done"]
    /\ UNCHANGED <<approval_count, last_approval_time, countdown_running>>
    /\ ThreadFrame

\* approval.py 143-164 with 212-217: an os.write of _execute_approval raises.
\* The counter was incremented at line 132 and the prompt type read at line
\* 143; the exception leaves _execute_approval and countdown_and_approve and
\* reaches countdown_wrapper's finally clause.
WriteFails(t) ==
    /\ threads[t].pc \in ApprovingPcs
    /\ threads' = [threads EXCEPT
          ![t].kind = IF threads[t].pc = "approve"
                      THEN GetPromptType(last_buffer) ELSE @,
          ![t].pc = "finally"]
    /\ UNCHANGED <<approval_count, last_approval_time, countdown_running>>
    /\ ThreadFrame

\* a step of a countdown thread, its writes succeeding or not
ThreadRun == ThreadStep \/ \E t \in DOMAIN threads : WriteFails(t)

\* the child prints again when at most one countdown thread is left: a prompt
\* supersedes the running countdown, and the one before that has ended
AtMostOneAlive == Cardinality({t \in DOMAIN threads : Alive(t)}) <= 1

\* delay 1 and the small limits of the countdown scenario
FairConfigs ==
    {[c EXCEPT !.auto_approve_delay = 1] : c \in CountdownConfigs}

InitFair == InitWith(FairConfigs)
NextFair ==
    \/ (countdown_running /\ UserInput(KeyChunks, MaxThreadsFair))
    \/ (AtMostOneAlive /\ ClaudeOutput({PromptMenuA, PromptTextB}, MaxOutputsFair, MaxThreadsFair))
    \/ StartFinish
    \/ ThreadStep
    \/ \E t \in DOMAIN threads : WriteFails(t)
\* a countdown thread that can take a step takes one, and start_countdown,
\* which holds _countdown_lock, runs to its end
SpecFair ==
    /\ InitFair
    /\ [][NextFair]_vars
    /\ WF_vars(ThreadRun \/ StartFinish)

(***************************************************************************)
(* Properties of the countdowns.                                           *)
(***************************************************************************)
\* a countdown thread that can still write: it is past its final check, or it
\* is in its tick loop and the cancellation flag it will read is not set
CanStillWrite(t) ==
    \/ threads[t].pc \in ApprovingPcs
    \/ threads[t].pc \in TickLoopPcs /\ ~countdown_cancelled

\* the countdown threads that performed an approval write
Writers == {t \in DOMAIN threads : threads[t].wrote # <<>>}

\* C1: at every moment at most one countdown thread exists that can still
\* perform an approval write to the PTY.
C1_AtMostOneCanStillWrite ==
    Cardinality({t \in DOMAIN threads : CanStillWrite(t)}) <= 1

\* C2: a countdown superseded in its tick loop by a start_countdown for a
\* different fingerprint does not pass its final check and writes no bytes.
C2_SupersededWritesNothing ==
    \A t \in DOMAIN threads :
        threads[t].supDiff =>
            threads[t].wrote = <<>> /\ threads[t].pc \notin ApprovingPcs

\* C3: a countdown cancelled by cancel_countdown before its delay has expired
\* does not pass its final check and writes no bytes.
C3_CancelledWritesNothing ==
    \A t \in DOMAIN threads :
        threads[t].ucancel =>
            threads[t].wrote = <<>> /\ threads[t].pc \notin ApprovingPcs

\* C4: a countdown that had at least two ticks of delay left when approve_now
\* was signalled, and was not cancelled or superseded before its final check,
\* sleeps no further tick after the one it was in, has then slept fewer ticks
\* than its delay, and ends only after writing the approval keystrokes.
C4_ApproveNowSkipsTicks ==
    \A t \in DOMAIN threads :
        LET th == threads[t]
        IN  (th.nowAt >= 0 /\ ~th.disturbed) =>
                /\ th.slept <= th.nowAt + 1
                /\ th.slept < th.delay
                /\ th.slept = th.nowAt + 1 => th.pc # "sleep"
                /\ th.pc \in {"finally", "done"} => th.wrote # <<>>

\* a countdown ended early by approve_now, its keystrokes written
C4_Witness ==
    \E t \in DOMAIN threads :
        /\ threads[t].nowAt >= 0 /\ ~threads[t].disturbed
        /\ threads[t].pc = "done"
        /\ threads[t].wrote # <<>>
        /\ threads[t].slept < threads[t].delay

\* C5: start_countdown for a buffer with the fingerprint of the running
\* countdown starts no new countdown thread.
C5_SameFingerprintStartsNothing ==
    \A t \in DOMAIN threads : ~threads[t].overSame

\* C9: with the default limits and the same prompt arriving six times within
\* 60 s, at most five approval sequences are written, the idle fallback included.
C9_AtMostFiveApprovals ==
    Cardinality(Writers) + Len(idle_writes) <= DefaultMaxSamePromptApprovals

\* C10: with delay 0, after one output event that is a numbered-menu prompt the
\* buffer is cleared, the one countdown sleeps no tick, and it ends with exactly
\* one carriage return written and the approval counter at 1.
C10_ImmediateApproval ==
    (config.auto_approve_delay = 0 /\ Len(stdout) = 1
        /\ GetPromptType(stdout[1]) = "numbered_menu") =>
        /\ Len(threads) = 1
        /\ output_buffer = <<>>
        /\ idle_writes = <<>>
        /\ threads[1].slept = 0
        /\ threads[1].wrote \in {<<>>, <<CR>>}
        /\ approval_count = IF threads[1].pc = "check" THEN 0 ELSE 1
        /\ threads[1].pc \in {"finally", "done"} => threads[1].wrote = <<CR>>

\* the one countdown has ended: one carriage return, counter 1, buffer empty
C10_Witness ==
    /\ Len(stdout) = 1 /\ Len(threads) = 1
    /\ threads[1].pc = "done" /\ threads[1].wrote = <<CR>>
    /\ approval_count = 1 /\ output_buffer = <<>>


(***************************************************************************)
(* Properties of the handlers.                                             *)
(***************************************************************************)
\* the buffer an output step hands to the detector: the last chunk written to
\* stdout' appended to the buffer
OutputStep == stdout' # stdout
StepBuffer == Truncated(output_buffer \o stdout'[Len(stdout')])

\* whether the records inside the window put fingerprint h over a limit
OverLimit(h) ==
    \/ WindowCount(h) >= config.max_same_prompt_approvals
    \/ WindowTotal >= config.max_approvals_per_minute

\* an output step that calls start_countdown
StartAttempt == OutputStep /\ auto_approve_enabled /\ IsPermissionPrompt(StepBuffer)

\* the effect of a refused start_countdown: the purge and nothing else
RefusalFrame ==
    /\ approval_timestamps' = CleanTimestamps(clock)
    /\ approval_hashes' = CleanHashes(clock)
    /\ UNCHANGED <<approval_count, countdown_running, countdown_cancelled,
                   countdown_approve_now, last_buffer, threads>>
    /\ output_buffer' = StepBuffer
    /\ muxpc' = "loop"

\* C11: a start_countdown for a fingerprint over a limit changes nothing but
\* the purge and leaves the buffer in place; a start_countdown for a
\* fingerprint under both limits, also after a refusal, goes on to start.
C11_RefusalFrame ==
    [][StartAttempt =>
          IF OverLimit(Fingerprint(StepBuffer))
          THEN RefusalFrame
          ELSE muxpc' = "start2" \/ Len(threads') = Len(threads) + 1]_vars

\* C11 as stated: after a refusal a check for a fingerprint that was not
\* refused as a loop is allowed.
C11_LaterPromptAllowed ==
    (chk.valid /\ blocked # {} /\ chk.fp \notin blocked) => chk.allowed

\* a countdown started from the buffer that a refusal left in place: the
\* refused prompt followed by the next one
C11_Witness ==
    /\ blocked = {Fingerprint(PromptMenuA)}
    /\ \E t \in DOMAIN threads : threads[t].buf = PromptMenuA \o PromptTextB

\* C12: once cleanup() has closed the PTY master descriptor no countdown
\* thread is left that can still perform an approval write.
C12_NoWriterAfterClose ==
    muxpc = "closed" => \A t \in DOMAIN threads : ~CanStillWrite(t)

\* a countdown thread between its final cancellation check and the end of
\* its approval writes
Approving == \E t \in DOMAIN threads : threads[t].pc \in ApprovingPcs

\* C13: while a countdown is between its final check and the end of its
\* approval writes, the multiplexer writes nothing to the PTY: no forwarded
\* user chunk and no idle-fallback keystroke.
C13_NoMuxWriteWhileApproving ==
    [][Approving => (fwd' = fwd /\ idle_writes' = idle_writes)]_vars

\* C14: no chunk the multiplexer wrote to the PTY holds the toggle byte.
C14_ToggleByteNeverForwarded ==
    \A i \in 1..Len(fwd) : \A j \in 1..Len(fwd[i]) : fwd[i][j] # ToggleKey

\* a step that starts a countdown thread from buffer buf and clears the
\* Output Buffer
StartedFrom(buf) ==
    /\ Len(threads') = Len(threads) + 1
    /\ threads'[Len(threads')].buf = buf
    /\ output_buffer' = <<>>

C16_OutputAccumulates ==
    [][OutputStep =>
          IF ~auto_approve_enabled
          THEN /\ output_buffer' = StepBuffer
               /\ UNCHANGED <<limiterVars, managerVars, muxpc, pending>>
          ELSE \/ output_buffer' = StepBuffer
               \/ StartedFrom(StepBuffer)]_vars

\* two output events while disabled from the start: both are in the buffer,
\* which is a prompt, and no countdown was started
C16_Witness ==
    /\ ~config.auto_approve_enabled /\ ~auto_approve_enabled
    /\ Len(stdout) = 2 /\ output_buffer = stdout[1] \o stdout[2]
    /\ IsPermissionPrompt(output_buffer)
    /\ threads = <<>>

\* whether s is the end of t
IsSuffix(s, t) ==
    Len(s) <= Len(t) /\ SubSeq(t, Len(t) - Len(s) + 1, Len(t)) = s

\* C17: after every output event the buffer holds at most MAX_BUFFER_SIZE
\* characters and is the end of the appended buffer: all of it while that is
\* within MAX_BUFFER_SIZE, a non-empty shorter end otherwise.
C17_BufferBounded ==
    [][OutputStep =>
          LET appended == output_buffer \o stdout'[Len(stdout')]
          IN  /\ TextLen(output_buffer') <= MaxBufferSize
              /\ IsSuffix(output_buffer', appended)
              /\ IF TextLen(appended) <= MaxBufferSize
                 THEN output_buffer' = appended
                 ELSE /\ output_buffer' # <<>>
                      /\ Len(output_buffer') < Len(appended)]_vars

\* a buffer of exactly MAX_BUFFER_SIZE characters was left whole and the next
\* read truncated it
C17_Witness ==
    /\ Len(stdout) = MaxReads
    /\ TextLen(output_buffer) = MaxBufferSize + 784 - TrimPoint
    /\ output_buffer[Len(output_buffer)] = WordB

C19_CancelBeforeFinalCheck ==
    [][(UserInput({<<"n">>}, MaxThreads) /\ countdown_running) =>
          threads[Current].pc \notin ApprovingPcs]_vars

IdleStep == idle_writes' # idle_writes

\* C21: a firing idle fallback writes a carriage return for a NUMBERED_MENU
\* buffer and "yes" then a carriage return for a TEXT_INPUT buffer, adds one to
\* the approval counter, sets both times to now and clears the buffer, after
\* which it cannot fire; and only PTY output makes the buffer longer.
C21_IdleApproval ==
    [][/\ IdleStep =>
            /\ idle_writes' = idle_writes \o
                  (IF GetPromptType(output_buffer) = "numbered_menu"
                   THEN <<CR>> ELSE <<"yes", CR>>)
            /\ approval_count' = approval_count + 1
            /\ last_approval_time' = clock
            /\ last_idle_action_time' = clock
            /\ output_buffer' = <<>>
            /\ ~IdleFires'
       /\ ~OutputStep => TextLen(output_buffer') <= TextLen(output_buffer)]_vars

\* the fallback fired for a menu-like buffer and, after new output of 64
\* characters, for a text-input one
C21_Witness ==
    /\ idle_writes = <<CR, "yes", CR>>
    /\ approval_count = 2
    /\ last_idle_action_time = clock
    /\ output_buffer = <<>>

\* C22: every write of a countdown thread is one of three: from the sleep of
\* _execute_approval a single carriage return that ends the approval, when
\* the prompt type read there is NUMBERED_MENU; from the same place "yes",
\* when it is TEXT_INPUT; and, as a later step after "yes", a single carriage
\* return that ends the approval.
C22_ApprovalWrites ==
    [][\A t \in DOMAIN threads :
          LET a == threads[t]
              b == threads'[t]
          IN  a.wrote # b.wrote =>
                \/ /\ a.pc = "approve" /\ a.wrote = <<>>
                   /\ GetPromptType(last_buffer) = "numbered_menu"
                   /\ b.wrote = <<CR>> /\ b.pc = "finally"
                \/ /\ a.pc = "approve" /\ a.wrote = <<>>
                   /\ GetPromptType(last_buffer) = "text_input"
                   /\ b.wrote = <<"yes">> /\ b.pc = "write2"
                \/ /\ a.pc = "write2" /\ a.wrote = <<"yes">>
                   /\ b.wrote = <<"yes", CR>> /\ b.pc = "finally"]_vars

\* one countdown has approved a menu with a carriage return, another a
\* text-input prompt with "yes" and a carriage return
C22_Witness ==
    \E t, u \in DOMAIN threads :
        /\ threads[t].pc = "done" /\ threads[t].wrote = <<CR>>
        /\ threads[u].pc = "done" /\ threads[u].wrote = <<"yes", CR>>

\* C23: for every text, stripping the result of strip_ansi again changes
\* nothing, and the result of strip_ansi holds no escape byte.
C23_StripAnsiIdempotent ==
    det.op = "strip_ansi" =>
        /\ det.again = det.out
        /\ \A i \in 1..Len(det.out) : det.out[i] # Esc

\* the pairs of limiter texts with the same normalized text, and the
\* fingerprint of each text
SameNormalized == {p \in LimiterTexts \X LimiterTexts : StripAnsi(p[1]) = StripAnsi(p[2])}
FingerprintOf == [t \in LimiterTexts |-> Fingerprint(t)]

\* C24: a check of text a computes the fingerprint of text b exactly when a
\* and b have the same normalized text, and a record made for a adds one to
\* the in-window count of b's fingerprint exactly when they have, and nothing
\* to it otherwise.
C24_SameTextSameFingerprint ==
    [][/\ chk'.valid =>
            \A a \in LimiterTexts : CheckApprovalAllowed(a) =>
                \A b \in LimiterTexts :
                    (chk'.fp = FingerprintOf[b]) <=> (<<a, b>> \in SameNormalized)
       /\ Len(approval_hashes') > Len(approval_hashes) =>
            \A a \in LimiterTexts :
                approval_hashes' = RecordedHashes(approval_hashes, a) =>
                    \A b \in LimiterTexts :
                        WindowCount(FingerprintOf[b])' =
                            WindowCount(FingerprintOf[b])
                                + (IF <<a, b>> \in SameNormalized THEN 1 ELSE 0)]_vars

\* the coloured prompt is refused as a loop on two records of its normalized
\* text, while one record of another text is counted apart
C24_Witness ==
    /\ chk.valid /\ chk.reason = ReasonLoop
    /\ chk.fp = Fingerprint(PromptMenuAColor)
    /\ WindowCount(Fingerprint(PromptMenuA)) = config.max_same_prompt_approvals
    /\ WindowCount(Fingerprint(PromptTextB)) = 1

\* the lines of a classified text, as a set of markers
Lines(text) == {text[i] : i \in 1..Len(text)} \ {Newline, AnsiColor}

\* C25: the verdict is "score >= threshold"; under the default threshold the
\* Yes/No pair alone is a prompt, a permission-rule or proceed marker alone
\* is none, and a marker with the Yes/No pair and the cancel hint scores 6
\* and is a prompt.
C25_ScoreThreshold ==
    det.op = "classify" =>
        /\ det.permission <=> det.score >= config.min_detection_score
        /\ config.min_detection_score = DefaultMinDetectionScore =>
              /\ Lines(det.text) = {"1. Yes", "2. No"} => det.score = 3 /\ det.permission
              /\ Lines(det.text) = {"Permission rule"} => det.score = 2 /\ ~det.permission
              /\ Lines(det.text) = {"Do you want to proceed?"}
                    => det.score = 2 /\ ~det.permission
              /\ Lines(det.text) = {"Permission rule", "1. Yes", "2. No", "Esc to cancel"}
                    => det.score = 6 /\ det.permission

\* the Yes/No pair alone, classified under the default threshold
C25_Witness ==
    /\ det.op = "classify"
    /\ config.min_detection_score = DefaultMinDetectionScore
    /\ Lines(det.text) = {"1. Yes", "2. No"}
    /\ det.permission

\* C26: a text with a code fence is no permission prompt, whatever else it
\* holds and whatever the threshold.
C26_FenceNeverPrompt ==
    (det.op = "classify" /\ Fence \in Lines(det.text)) => ~det.permission

\* C27: is_question_prompt and is_permission_prompt are never both true, and
\* is_question_prompt is true only for a text that a question pattern matches.
C27_QuestionExcludesPermission ==
    det.op = "classify" =>
        /\ ~(det.question /\ det.permission)
        /\ det.question => Lines(det.text) \cap QuestionTokens # {}

\* a prompt with "1) Yes" options and the Yes/No score: a pattern matches and
\* is_question_prompt is false
C27_Witness ==
    /\ det.op = "classify"
    /\ "1) Yes" \in Lines(det.text)
    /\ det.permission /\ ~det.question

\* C28: the kind is NUMBERED_MENU when the text holds "1. Yes" or "2. No",
\* else TEXT_INPUT when it holds a type-yes phrase or "(y/n)", else
\* NUMBERED_MENU; the verdict and the threshold play no part.
C28_PromptTypeRules ==
    det.op = "classify" =>
        LET menu == Lines(det.out) \cap {"1. Yes", "2. No"} # {}
            typed == Lines(det.out) \cap (TypeYesTokens \cup {YnToken}) # {}
        IN  /\ menu => det.kind = "numbered_menu"
            /\ (~menu /\ typed) => det.kind = "text_input"
            /\ (~menu /\ ~typed) => det.kind = "numbered_menu"

\* a text with both "1. Yes" and "(y/n)" is a NUMBERED_MENU
C28_Witness ==
    /\ det.op = "classify"
    /\ {"1. Yes", YnToken} \subseteq Lines(det.text)
    /\ det.kind = "numbered_menu"

\* C29: once run() has left its loop after a failed or ended read or write,
\* or is about to run its finally clause after a failed idle write, cleanup
\* is eventually done: countdown cancelled, PTY master closed, child
\* terminated, also when the child never exits by itself.
C29_TeardownReached ==
    (muxpc \in {"wait", "finally"}) ~> (muxpc = "closed" /\ process = "exited")

\* C30: a resize event in the multiplexer loop leaves run() in the loop and
\* leaves the output buffer, the mode, the countdown state and the limiter
\* records as they were, whether update_size succeeds or fails.
C30_ResizeHarmless ==
    [][(muxpc = "loop" /\ Resize) =>
          /\ muxpc' = "loop"
          /\ UNCHANGED <<output_buffer, auto_approve_enabled, managerVars,
                         limiterVars>>]_vars

\* a countdown thread that has ended without a write and without reading the
\* prompt type (the returns of approval.py 110 and 124), or after
\* _execute_approval has begun
EndedCancelled(t) == ~Alive(t) /\ threads[t].kind = "" /\ threads[t].wrote = <<>>
EndedApproved(t) == ~Alive(t) /\ threads[t].kind # ""

\* C31: under fair scheduling the state "every countdown thread started so
\* far has ended and is_running() is false" comes back again and again, also
\* when a write raises; an ended thread was cancelled or approved and never
\* both; an idle manager stays idle until the next start_countdown.
C31_CountdownTerminates ==
    /\ []<>(~countdown_running /\ Quiescent)
    /\ [][(~countdown_running /\ countdown_running')
              => Len(threads') = Len(threads) + 1]_vars
    /\ [](\A t \in DOMAIN threads :
              ~Alive(t) => (EndedCancelled(t) # EndedApproved(t)))

\* a countdown whose approval write failed has ended and the manager is idle
C31_Witness ==
    /\ Len(threads) >= 1
    /\ ~countdown_running
    /\ \E t \in DOMAIN threads :
          /\ EndedApproved(t)
          /\ Len(threads[t].wrote) < Len(ApprovalKeys(threads[t].buf))
    /\ \E t \in DOMAIN threads : EndedCancelled(t)

Consumed(chunk) ==
    LET buf == Truncated(output_buffer \o chunk)
    IN  /\ muxpc = "loop"
        /\ \/ output_buffer' = buf
           \/ Len(threads') = Len(threads) + 1 /\ last_buffer' = buf
           \/ muxpc' = "start2" /\ pending'.buffer = buf

\* C33: a step that takes a chunk from the PTY appends exactly that chunk to
\* what was written to the terminal, in either mode, for a prompt or other
\* text, started or refused, and also when start_countdown is still inside
\* its lock; nothing else is ever written there for the child, and nothing
\* written is changed later.
C33_OutputForwarded ==
    /\ [][\A chunk \in {PromptMenuA, NoiseChunk} :
             Consumed(chunk) => stdout' = Append(stdout, chunk)]_vars
    /\ [][stdout' # stdout =>
             \E chunk \in {PromptMenuA, NoiseChunk} :
                 Consumed(chunk) /\ stdout' = Append(stdout, chunk)]_vars

\* a prompt was forwarded and refused by the loop limit, and the session is
\* in disabled mode
C33_Witness ==
    /\ stdout = <<PromptMenuA, PromptMenuA>>
    /\ blocked # {}
    /\ output_buffer = PromptMenuA
    /\ ~auto_approve_enabled

\* the limiter lists a start_countdown call works on: cleaned by its check in
\* the same step, or already cleaned when the call is inside its lock
StartTimestamps == IF muxpc = "start2" THEN approval_timestamps ELSE CleanTimestamps(clock)
StartHashes == IF muxpc = "start2" THEN approval_hashes ELSE CleanHashes(clock)

\* C34: a step in which start_countdown starts a countdown (returns True)
\* appends one record with the fingerprint of the started buffer and the
\* current time to both limiter lists; every other step appends nothing: not a
\* refused start, and not a cancellation, a supersession or the end of a
\* countdown, which also remove nothing.
C34_RecordAtStart ==
    [][/\ Len(threads') = Len(threads) + 1 =>
            /\ approval_timestamps' = Append(StartTimestamps, clock)
            /\ approval_hashes' = Append(StartHashes, <<Fingerprint(last_buffer'), clock>>)
            /\ last_buffer' \in {output_buffer, pending.buffer}
               \/ \E chunk \in {PromptMenuA, PromptTextB} :
                     last_buffer' = Truncated(output_buffer \o chunk)
       /\ Len(threads') = Len(threads) =>
            /\ approval_timestamps' \in {approval_timestamps, CleanTimestamps(clock)}
            /\ approval_hashes' \in {approval_hashes, CleanHashes(clock)}
       /\ threads' # threads /\ Len(threads') = Len(threads) /\ muxpc' # "start2" =>
            UNCHANGED <<approval_timestamps, approval_hashes>>]_vars

\* a prompt is refused by the loop limit though nothing was ever approved:
\* the countdown that made the record was cancelled
C34_Witness ==
    /\ approval_count = 0
    /\ blocked # {}
    /\ Len(threads) = 1 /\ ~Alive(1) /\ threads[1].wrote = <<>>
    /\ Len(approval_hashes) = 1

\* C35: what a countdown thread has written is, at every moment, a prefix of
\* the keystrokes for the kind of the buffer its own start_countdown call was
\* given, and the prompt type it read is that buffer's.
C35_KeysFromOwnBuffer ==
    \A t \in DOMAIN threads :
        /\ threads[t].kind # "" => threads[t].kind = GetPromptType(threads[t].buf)
        /\ \E n \in 0..Len(ApprovalKeys(threads[t].buf)) :
              threads[t].wrote = SubSeq(ApprovalKeys(threads[t].buf), 1, n)

\* the countdown threads that have entered _execute_approval, and the idle
\* approvals made: each ends with one carriage return
EnteredApproval == {t \in DOMAIN threads : threads[t].pc \in ApprovingPcs \/ threads[t].kind # ""}
IdleApprovals == Cardinality({i \in DOMAIN idle_writes : idle_writes[i] = CR})

C37_RunningWhileThreadAlive ==
    (muxpc # "start2" /\ \E t \in DOMAIN threads : Alive(t)) => countdown_running

\* the output buffer holds a prompt whose start the limiter has refused as
\* a loop: a start that is accepted empties the buffer (wrapper.py 321-322)
RefusedPromptHeld ==
    /\ muxpc = "loop"
    /\ auto_approve_enabled
    /\ IsPermissionPrompt(output_buffer)
    /\ Fingerprint(output_buffer) \in blocked

\* C38: while the output buffer holds a refused prompt, no countdown thread
\* is left and no new output arrives, no step writes an approval keystroke:
\* the idle fallback does not answer the prompt.
C38_RefusedPromptUnanswered ==
    [][(/\ RefusedPromptHeld
        /\ \A t \in DOMAIN threads : ~Alive(t)
        /\ stdout' = stdout) => idle_writes' = idle_writes]_vars

\* C39: while less than 60 s have passed since the session began, the
\* approvals made by any path, countdown or idle fallback, are at most
\* max_approvals_per_minute.
C39_ApprovalsWithinRate ==
    (clock - StartTime < WindowSeconds) => approval_count <= config.max_approvals_per_minute

\* C40: no cleanup() calls os.close on the PTY master once it is closed, and
\* terminate() is called on the child at most once, also when the signal
\* handler's cleanup() is followed by the cleanup() of run()'s finally.
C40_ClosedAndTerminatedOnce ==
    /\ \A i \in DOMAIN master.closes : master.closes[i] # "EBADF"
    /\ master.terminates <= 1

=============================================================================
